---- MODULE Spec2Model ----
(***************************************************************************)
(* Single-flight scrape-and-cache mechanism of the review scrapers.        *)
(*                                                                         *)
(* app/libs/api_utils.py: single_request_per_url keeps two module-level    *)
(* dicts, _request_locks (key -> asyncio.Lock) and _ongoing_requests       *)
(* (key -> asyncio.Task).  The profile_* handlers it wraps read a JSON     *)
(* cache entry, and on a miss run an Apify actor, read its dataset, cache  *)
(* the items and build the response.                                       *)
(*                                                                         *)
(* One event loop: an action is the code between two suspension points.    *)
(* md5 is modelled as injective: a key is the tuple that is hashed.        *)
(* datetime.isoformat / fromisoformat of an aware UTC time is lossless, a  *)
(* timestamp is the clock value (hours) at which it was taken.             *)
(***************************************************************************)
EXTENDS Integers, Sequences, FiniteSets, TLC

\* ---------------------------------------------------------------- bounds
NCallers == 2
MaxNow == 1
MaxBursts == 2
BurstSize == 500

\* --------------------------------------------------- program constants
LockLimit == 1000
KeepLocks == 500
TtlHours == 24

Callers == 1..NCallers
None == "None"

\* ------------------------------------------------------------- requests
Fns == {"profile_myhammer", "profile_booking", "profile_jameda",
        "profile_trustpilot", "profile_anwalt", "profile_provenexpert"}

\* A url is a location plus its fragment; the two urls differ in the fragment.
Urls == {[loc |-> "a", fragment |-> ""], [loc |-> "a", fragment |-> "x"]}

Pages == {1, 2}

\* ScrapeRequest(url, page)
Requests == [fn : Fns, url : Urls, page : Pages]

\* (mutant) the page is left out of the key
RequestKeyNoPage(req) == <<req.fn, req.url, 1>>

\* cache_key of the wrapper: md5(f"{func.__name__}_{request.url}_{page}")
RequestKey(req) == <<req.fn, req.url, req.page>>

RequestKeys == {RequestKey(r) : r \in Requests}

\* normalize_booking_url: the fragment is replaced by tab-reviews
normalize_booking_url(url) == [url EXCEPT !.fragment = "tab-reviews"]

\* normalize_myhammer_url: path gets /bewertungen, query gets page=<page>
normalize_myhammer_url(url, page) ==
    [loc |-> url.loc, suffix |-> "/bewertungen", page |-> page, fragment |-> url.fragment]

\* normalize_trustpilot_url: query gets page=<page>
normalize_trustpilot_url(url, page) ==
    [loc |-> url.loc, suffix |-> "", page |-> page, fragment |-> url.fragment]

\* The url handed to the actor as startUrls (request.url of the pageFunction).
StartUrl(req) ==
    CASE req.fn = "profile_myhammer" -> normalize_myhammer_url(req.url, req.page)
      [] req.fn = "profile_trustpilot" -> normalize_trustpilot_url(req.url, req.page)
      [] req.fn = "profile_booking" -> normalize_booking_url(req.url)
      [] req.fn = "profile_provenexpert" ->   \* f"{request.url}/#ratings"
            [loc |-> req.url.loc, suffix |-> "/#ratings", fragment |-> req.url.fragment]
      [] OTHER -> req.url

\* The key of the handler's cache entry.
CacheKey(req) ==
    CASE req.fn = "profile_myhammer" ->
            <<"myhammer_scrape_all", normalize_myhammer_url(req.url, req.page)>>
      [] req.fn = "profile_trustpilot" ->
            <<"trustpilot_scrape_all", normalize_trustpilot_url(req.url, req.page)>>
      [] req.fn = "profile_booking" ->
            <<"booking", normalize_booking_url(req.url), req.page>>
      [] req.fn = "profile_jameda" -> <<"jameda", req.url, req.page>>
      [] req.fn = "profile_provenexpert" ->   \* get_cache_key ignores the page
            <<"provenexpert_scrape_all", req.url>>
      [] OTHER -> <<"anwalt_scrape_reviews", req.url, req.page>>

CacheKeys == {CacheKey(r) : r \in Requests}

\* ------------------------------------------------------------ data model
\* Python's None and optional values: <<>> is None, <<v>> is the value v.
NoneVal == <<>>

Some(v) == <<v>>

\* Python's `x or y` on an optional number
OrElse(x, y) == IF x = NoneVal \/ x = Some(0) THEN Some(y) ELSE x

Versions == {0, 1, 2}

\* The reviews the page shows at upstream version v.
ReviewsOf(v) == [i \in 1..v |-> i]

\* The object a pageFunction returns for the crawled url: the url, the totals
\* and the review list (totalScraped / reviewsScraped is reviews.length).
Item(url, v) ==
    [url |-> url, total |-> Some(10 * v), totalScraped |-> Some(v), reviews |-> ReviewsOf(v)]

\* (await dataset_client.list_items()).items
DatasetItems(req) == {<<>>} \cup {<<Item(StartUrl(req), v)>> : v \in Versions}

NoEntry == [missing |-> TRUE]

Response(data, message, pagination) ==
    [status |-> 200, data |-> data, message |-> message, pagination |-> pagination]

\* An exception leaving the handler: what was raised, and by which invocation.
Raised(kind, detail, t) == [status |-> 500, error |-> kind, detail |-> detail, task |-> t]

PaginationMeta(current_page, total_reviews) ==
    [current_page |-> current_page, total_reviews |-> total_reviews]

\* all_reviews.extend(page_data["reviews"]) over the items (profile_anwalt)
RECURSIVE FlattenReviews(_)
FlattenReviews(items) ==
    IF items = <<>> THEN <<>> ELSE items[1].reviews \o FlattenReviews(Tail(items))

\* profile_anwalt rewrites the items into one item holding all reviews.
AnwaltItems(req, items) ==
    IF items = <<>> THEN <<>>
    ELSE <<[url |-> items[1].url, total |-> items[1].total,
            totalScraped |-> items[1].totalScraped, reviews |-> FlattenReviews(items)]>>

\* ----------------------------------------------------- the cache-hit path
\* (mutant) the window taken as 24 days
IsFreshDays(entry, clock) == clock - entry.timestamp < TtlHours * 24

\* datetime.now(timezone.utc) - cached_timestamp < timedelta(hours=24)
IsFresh(entry, clock) == clock - entry.timestamp < TtlHours

\* (mutant) the cache block never returns
CacheHitNever(req, entry, clock) == FALSE

\* The handler returns from its cache block (entry already read).
CacheHit(req, entry, clock) ==
    /\ entry # NoEntry
    /\ IsFresh(entry, clock)
    /\ req.fn # "profile_anwalt" => Len(entry.data) > 0

\* (mutant) the cached reviews are read under a key the item does not have
CachedProfileNoReviews(req, sd) ==
    [url |-> sd.url, total_reviews |-> sd.total, totalScraped |-> sd.totalScraped,
     reviews |-> <<>>]

\* ScrapedProfile built from cached_data[0]
CachedProfile(req, sd) ==
    [url |-> sd.url,
     total_reviews |-> IF req.fn = "profile_provenexpert"
                       THEN Some(Len(sd.reviews))   \* summaryReviewsCount
                       ELSE sd.total,
     totalScraped |-> CASE req.fn \in {"profile_myhammer", "profile_provenexpert"} -> NoneVal
                        [] req.fn = "profile_trustpilot" -> Some(Len(sd.reviews))
                        [] OTHER -> sd.totalScraped,
     reviews |-> sd.reviews]

\* The response of the cache block.
CachedResponse(req, entry) ==
    IF req.fn = "profile_anwalt"
    THEN Response(entry.data, "Data retrieved from cache.", entry.pagination)
    ELSE LET sd == entry.data[1] IN
         Response(<<CachedProfile(req, sd)>>, "Data retrieved from cache.",
                  PaginationMeta(IF req.fn \in {"profile_myhammer", "profile_provenexpert"}
                                 THEN 1 ELSE req.page,
                                 IF req.fn = "profile_provenexpert"
                                 THEN Some(Len(sd.reviews))
                                 ELSE OrElse(sd.total, Len(sd.reviews))))

\* --------------------------------------------------- the fresh-fetch path
\* ScrapedProfile built from dataset_items after a fetch (scraped_data = {}
\* when there are no items).
FreshProfile(req, items) ==
    IF items = <<>>
    THEN [url |-> req.url,
          total_reviews |-> IF req.fn = "profile_jameda" THEN Some(0) ELSE NoneVal,
          totalScraped |-> Some(0),
          reviews |-> <<>>]
    ELSE LET sd == items[1] IN
         [url |-> sd.url,
          total_reviews |-> IF req.fn = "profile_provenexpert"
                            THEN Some(Len(sd.reviews))   \* summaryReviewsCount
                            ELSE sd.total,
          totalScraped |-> CASE req.fn \in {"profile_myhammer", "profile_provenexpert"} -> NoneVal
                             [] req.fn = "profile_jameda" -> sd.totalScraped
                             [] OTHER -> Some(Len(sd.reviews)),
          reviews |-> sd.reviews]

FreshPagination(req, items) ==
    LET n == IF items = <<>> THEN 0 ELSE Len(items[1].reviews)
        total == IF items = <<>> THEN NoneVal ELSE items[1].total
    IN CASE req.fn = "profile_anwalt" -> PaginationMeta(1, Some(Len(FlattenReviews(items))))
         [] req.fn = "profile_provenexpert" -> PaginationMeta(1, Some(n))
         [] req.fn = "profile_myhammer" ->
                PaginationMeta(1, IF items # <<>> THEN total ELSE Some(n))
         [] req.fn = "profile_booking" -> PaginationMeta(req.page, OrElse(total, n))
         [] OTHER -> PaginationMeta(req.page, IF items # <<>> THEN total ELSE Some(n))

\* The entry db.storage.json.put stores.
NewEntry(req, items, clock) ==
    IF req.fn = "profile_anwalt"
    THEN [timestamp |-> clock, data |-> AnwaltItems(req, items),
          pagination |-> FreshPagination(req, items)]
    ELSE [timestamp |-> clock, data |-> items]

\* "Data scraped successfully." if all_reviews (profile_anwalt: if dataset_items)
FreshMessage(req, items) ==
    IF items # <<>> /\ (req.fn = "profile_anwalt" \/ Len(items[1].reviews) > 0)
    THEN "Data scraped successfully."
    ELSE "No data found, but request was cached."

\* The handler from the dataset items to its return or raise: the cache put
\* at put_ok, then the response.  profile_myhammer binds scraped_data only
\* when there are items and reads it after the put.
FinishResult(req, items, put_ok, t) ==
    IF ~put_ok THEN Raised("HTTPException", "put", t)
    ELSE IF req.fn = "profile_myhammer" /\ items = <<>>
    THEN Raised("HTTPException", "UnboundLocalError", t)
    ELSE IF req.fn = "profile_anwalt"
    THEN Response(AnwaltItems(req, items), FreshMessage(req, items), FreshPagination(req, items))
    ELSE IF req.fn = "profile_provenexpert" /\ items = <<>>
    THEN \* transformed_data = dataset_items
         Response(<<>>, FreshMessage(req, items), FreshPagination(req, items))
    ELSE Response(<<FreshProfile(req, items)>>, FreshMessage(req, items),
                  FreshPagination(req, items))

\* ------------------------------------------------------------ the state
VARIABLES
    now,               \* datetime.now(timezone.utc), in hours
    storage,           \* db.storage.json: cache key -> entry
    faults,            \* whether db.storage.json may raise and the secret may be missing
    request_locks,     \* _request_locks, in insertion order
    locks,             \* the asyncio.Lock objects: _locked and _waiters
    ongoing_requests,  \* _ongoing_requests: key -> task
    calls,             \* the wrapper coroutines, one per caller
    tasks,             \* the tasks of create_task(func(request)), named by their creator
    bursts,            \* bursts of calls for other keys so far
    workload,          \* the requests the clients of this run send
    places,            \* google_places: the reviews cache and the get_place_details calls
    reminders,         \* the reminders table and the calls that read and write it
    invites,           \* the users and invites tables and the invite calls
    payouts,           \* the payouts table, the Stripe transfers and the trigger_payout calls
    webhooks           \* the companies and subscriptions tables and the stripe_webhook calls

\* The state of the single-flight wrapper and the scrape handlers.
wrapperVars == <<now, storage, faults, request_locks, locks, ongoing_requests, calls, tasks,
                 bursts, workload>>

\* The state of the other routes.
appVars == <<places, reminders, invites, payouts, webhooks>>

vars == <<wrapperVars, appVars>>

NoRequest == [fn |-> "", url |-> [loc |-> "", fragment |-> ""], page |-> 0]

IdleCall ==
    [pc |-> "idle", req |-> NoRequest, lock |-> 0, task |-> 0, created |-> FALSE,
     result |-> NoneVal]

\* A task: where its coroutine stands and its result, and what it did: how
\* the cache block ended, whether the actor was called, how the put ended,
\* and which other callers of its key were waiting when it finished.
NoTask ==
    [pc |-> "none", result |-> NoneVal, cache |-> "none", fetched |-> FALSE,
     put |-> "none", items |-> 0 - 1, waiting |-> {}]

\* ------------------------------------------------- _request_locks (dict)
\* The dict in insertion order: its length, and for each key of Requests in
\* it the position (1 = oldest) and the lock object.  Keys outside Requests
\* only count in the length.
EmptyLocks == [size |-> 0, entries |-> <<>>]

HasLock(rl, k) == k \in DOMAIN rl.entries

\* _request_locks[cache_key] = asyncio.Lock()
InsertLock(rl, k, l) ==
    [size |-> rl.size + 1,
     entries |-> [x \in DOMAIN rl.entries \cup {k} |->
                    IF x = k THEN [pos |-> rl.size + 1, lock |-> l] ELSE rl.entries[x]]]

\* (mutant) the finally block never removes a lock
CleanupLocksNever(rl) == rl

\* if len(_request_locks) > 1000: pop list(keys)[:-500]
CleanupLocks(rl) ==
    IF rl.size > LockLimit
    THEN LET drop == rl.size - KeepLocks IN
         [size |-> KeepLocks,
          entries |-> [x \in {y \in DOMAIN rl.entries : rl.entries[y].pos > drop} |->
                         [pos |-> rl.entries[x].pos - drop, lock |-> rl.entries[x].lock]]]
    ELSE rl

\* A whole wrapper call for a key outside Requests and not yet in the dict:
\* the lock is inserted, the operation runs, the cleanup runs.
OtherCall(rl) == CleanupLocks([rl EXCEPT !.size = @ + 1])

RECURSIVE OtherCallsN(_, _)
OtherCallsN(rl, n) ==
    IF rl.size + n <= LockLimit THEN [rl EXCEPT !.size = @ + n]  \* no cleanup fires
    ELSE IF n = 1 THEN OtherCall(rl)
    ELSE LET half == OtherCallsN(rl, n \div 2) IN
         IF half.size >= 0 THEN OtherCallsN(half, n - (n \div 2)) ELSE half

\* ------------------------------------------------------- asyncio.Lock
FreshLock == [locked |-> FALSE, waiters |-> <<>>]

\* acquire() returns at once: not locked and nobody queued
CanAcquireNow(lk) == ~lk.locked /\ lk.waiters = <<>>

\* (mutant) leaving `async with` does not release the lock
ReleaseNever(lks, l) == lks

\* release(): unlock; the first waiter, if any, is woken
Release(lks, l) == [lks EXCEPT ![l].locked = FALSE]

\* ------------------------------------------------------------ the wrapper
\* (mutant) the in-flight check is skipped
InFlightNever(k) == FALSE

\* (mutant) the finally block leaves the entry in place
KeepOngoing(k) == ongoing_requests

\* _ongoing_requests.pop(cache_key, None)
PopOngoing(k) == [x \in DOMAIN ongoing_requests \ {k} |-> ongoing_requests[x]]

\* if cache_key in _ongoing_requests
InFlight(k) == k \in DOMAIN ongoing_requests

\* The body of `async with _request_locks[cache_key]` up to its first
\* suspension; lks is the lock table with lock l taken by caller c.
InLock(c, req, l, lks) ==
    LET k == RequestKey(req) IN
    IF InFlight(k)
    THEN LET t == ongoing_requests[k] IN
         /\ UNCHANGED <<tasks, ongoing_requests>>
         /\ IF tasks[t].pc = "done"
            THEN \* awaiting a finished task does not suspend: return, release
                 /\ calls' = [calls EXCEPT ![c] =
                        [pc |-> "returned", req |-> req, lock |-> l, task |-> t,
                         created |-> FALSE, result |-> tasks[t].result]]
                 /\ locks' = Release(lks, l)
            ELSE /\ calls' = [calls EXCEPT ![c] =
                        [pc |-> "await_task", req |-> req, lock |-> l, task |-> t,
                         created |-> FALSE, result |-> NoneVal]]
                 /\ locks' = lks
    ELSE \* request_future = asyncio.create_task(func(request)); register; await
         /\ tasks' = [tasks EXCEPT ![c] = [NoTask EXCEPT !.pc = "ready"]]
         /\ ongoing_requests' =
                [x \in DOMAIN ongoing_requests \cup {k} |->
                    IF x = k THEN c ELSE ongoing_requests[x]]
         /\ calls' = [calls EXCEPT ![c] =
                [pc |-> "await_task", req |-> req, lock |-> l, task |-> c,
                 created |-> TRUE, result |-> NoneVal]]
         /\ locks' = lks

\* A request arrives: wrapper(request) up to its first suspension.
Call(c, req) ==
    /\ calls[c].pc = "idle"
    /\ LET k == RequestKey(req)
           rl == IF HasLock(request_locks, k) THEN request_locks
                 ELSE InsertLock(request_locks, k, c)
           l == rl.entries[k].lock
       IN /\ request_locks' = rl
          /\ IF CanAcquireNow(locks[l])
             THEN InLock(c, req, l, [locks EXCEPT ![l].locked = TRUE])
             ELSE /\ locks' = [locks EXCEPT ![l].waiters = Append(@, c)]
                  /\ calls' = [calls EXCEPT ![c] =
                         [pc |-> "acquire", req |-> req, lock |-> l, task |-> 0,
                          created |-> FALSE, result |-> NoneVal]]
                  /\ UNCHANGED <<tasks, ongoing_requests>>
    /\ UNCHANGED <<now, storage, faults, bursts, workload>>
    /\ UNCHANGED appVars

\* The caller at the head of a released lock's queue takes the lock.
LockAcquired(c) ==
    /\ calls[c].pc = "acquire"
    /\ LET l == calls[c].lock IN
       /\ ~locks[l].locked
       /\ locks[l].waiters # <<>>
       /\ Head(locks[l].waiters) = c
       /\ InLock(c, calls[c].req, l,
                 [locks EXCEPT ![l] = [locked |-> TRUE, waiters |-> Tail(@.waiters)]])
    /\ UNCHANGED <<now, storage, faults, request_locks, bursts, workload>>
    /\ UNCHANGED appVars

\* The caller that created the task resumes from `await request_future`:
\* return or raise through the finally block, then leave the lock.
CreatorResumes(c) ==
    /\ calls[c].pc = "await_task"
    /\ calls[c].created
    /\ tasks[calls[c].task].pc = "done"
    /\ ongoing_requests' = PopOngoing(RequestKey(calls[c].req))
    /\ request_locks' = CleanupLocks(request_locks)
    /\ locks' = Release(locks, calls[c].lock)
    /\ calls' = [calls EXCEPT ![c].pc = "returned",
                              ![c].result = tasks[calls[c].task].result]
    /\ UNCHANGED <<now, storage, faults, tasks, bursts, workload>>
    /\ UNCHANGED appVars

\* A caller that found the task in flight resumes from
\* `return await _ongoing_requests[cache_key]`.
WaiterResumes(c) ==
    /\ calls[c].pc = "await_task"
    /\ ~calls[c].created
    /\ tasks[calls[c].task].pc = "done"
    /\ locks' = Release(locks, calls[c].lock)
    /\ calls' = [calls EXCEPT ![c].pc = "returned",
                              ![c].result = tasks[calls[c].task].result]
    /\ UNCHANGED <<now, storage, faults, request_locks, ongoing_requests, tasks, bursts, workload>>
    /\ UNCHANGED appVars

\* BurstSize wrapper calls for keys outside Requests, one after the other.
OtherCalls ==
    /\ bursts < MaxBursts
    /\ bursts' = bursts + 1
    /\ request_locks' = OtherCallsN(request_locks, BurstSize)
    /\ UNCHANGED <<now, storage, faults, locks, ongoing_requests, calls, tasks, workload>>
    /\ UNCHANGED appVars

\* ------------------------------------------------------------ the handler
\* The outcomes of a db.storage.json call: TRUE it works, FALSE it raises.
StorageOutcomes == IF faults THEN {TRUE, FALSE} ELSE {TRUE}

\* db.secrets.get("APIFY_API_KEY"): TRUE the key is set
SecretOutcomes == IF faults THEN {TRUE, FALSE} ELSE {TRUE}

\* The callers, other than the creator, that wait for the lock of task t's
\* key or for the task itself.
WaitingOn(t) ==
    {c \in Callers \ {t} :
        /\ calls[c].pc \in {"acquire", "await_task"}
        /\ RequestKey(calls[c].req) = RequestKey(calls[t].req)}

\* How the cache block of a handler ended.
CacheOutcome(req, entry, clock, get_ok) ==
    IF ~get_ok THEN "error"
    ELSE IF entry = NoEntry THEN "absent"
    ELSE IF clock - entry.timestamp > TtlHours THEN "stale"
    ELSE IF ~IsFresh(entry, clock) THEN "at_ttl"
    ELSE IF CacheHit(req, entry, clock) THEN "hit"
    ELSE "empty"

\* The task's coroutine returns or raises.
TaskDone(tk, t, result) ==
    [tk EXCEPT ![t].pc = "done", ![t].result = result, ![t].waiting = WaitingOn(t)]

\* func(request) from its start to `await actor_client.call(...)`: the cache
\* block, the secret, the actor client.
HandlerStart(t) ==
    /\ tasks[t].pc = "ready"
    /\ LET req == calls[t].req
           entry == storage[CacheKey(req)]
       IN \E get_ok \in StorageOutcomes, apify_api_key \in SecretOutcomes :
            LET tk == [tasks EXCEPT ![t].cache = CacheOutcome(req, entry, now, get_ok)] IN
            IF get_ok /\ CacheHit(req, entry, now)
            THEN tasks' = TaskDone(tk, t, CachedResponse(req, entry))
            ELSE IF ~get_ok /\ req.fn \in {"profile_anwalt", "profile_provenexpert"}
            THEN \* not FileNotFoundError, KeyError or TypeError: not caught
                 tasks' = TaskDone(tk, t, Raised("Exception", "get", t))
            ELSE IF ~apify_api_key
            THEN tasks' = TaskDone(tk, t,
                     Raised("HTTPException", "Apify API key is not configured.", t))
            ELSE tasks' = [tk EXCEPT ![t].pc = "actor_call", ![t].fetched = TRUE]
    /\ UNCHANGED <<now, storage, faults, request_locks, locks, ongoing_requests, calls, bursts, workload>>
    /\ UNCHANGED appVars

\* From the dataset items to the end: the put, then the response.
Finish(t, items) ==
    LET req == calls[t].req IN
    \E put_ok \in StorageOutcomes :
        /\ storage' = IF put_ok
                      THEN [storage EXCEPT ![CacheKey(req)] = NewEntry(req, items, now)]
                      ELSE storage
        /\ tasks' = TaskDone([tasks EXCEPT ![t].put = IF put_ok THEN "ok" ELSE "raised",
                                           ![t].items = Len(items)],
                             t, FinishResult(req, items, put_ok, t))

\* `await actor_client.call(run_input=run_input)` returns or raises.
ActorCallReturns(t) ==
    /\ tasks[t].pc = "actor_call"
    /\ \/ /\ tasks' = TaskDone(tasks, t, Raised("HTTPException", "actor_client.call", t))
          /\ UNCHANGED storage
       \/ \* no run, or a run without defaultDatasetId: dataset_items = []
          Finish(t, <<>>)
       \/ /\ tasks' = [tasks EXCEPT ![t].pc = "list_items"]
          /\ UNCHANGED storage
    /\ UNCHANGED <<now, faults, request_locks, locks, ongoing_requests, calls, bursts, workload>>
    /\ UNCHANGED appVars

\* `await dataset_client.list_items()` returns or raises.
ListItemsReturns(t) ==
    /\ tasks[t].pc = "list_items"
    /\ \/ /\ tasks' = TaskDone(tasks, t, Raised("HTTPException", "list_items", t))
          /\ UNCHANGED storage
       \/ \E items \in DatasetItems(calls[t].req) : Finish(t, items)
    /\ UNCHANGED <<now, faults, request_locks, locks, ongoing_requests, calls, bursts, workload>>
    /\ UNCHANGED appVars

\* An hour passes.
Tick ==
    /\ now < MaxNow
    /\ now' = now + 1
    /\ UNCHANGED <<storage, faults, request_locks, locks, ongoing_requests, calls, tasks, bursts, workload>>
    /\ UNCHANGED appVars

\* ------------------------------------------------------- specifications
BaseUrl == [loc |-> "a", fragment |-> ""]

BaseRequest(fn) == [fn |-> fn, url |-> BaseUrl, page |-> 1]

\* Clients of one endpoint asking for two urls and two pages, and a client
\* of another endpoint.
MixedWorkload ==
    {r \in Requests : r.fn = "profile_trustpilot" /\ (r.url = BaseUrl \/ r.page = 1)}
    \cup {BaseRequest("profile_myhammer")}

\* Clients that all send the same request to one endpoint.
SingleWorkloads == {{BaseRequest(fn)} : fn \in Fns}

\* Entries left in the store by earlier runs: written 23 or 24 hours before.
InitStamps == {0 - TtlHours, 1 - TtlHours}

EmptyStorage == [ck \in CacheKeys |-> NoEntry]

\* The store holds nothing, or what an earlier call for r wrote.
InitStorages(r) ==
    {EmptyStorage} \cup
    {[EmptyStorage EXCEPT ![CacheKey(r)] =
        NewEntry(r, IF v = 0 THEN <<>> ELSE <<Item(StartUrl(r), v)>>, ts)] :
        v \in {0, 1}, ts \in InitStamps}

\* The callers that send requests in this run.
Clients == IF workload = MixedWorkload THEN {1, 2} ELSE Callers

InitCommon ==
    /\ now = 0
    /\ \/ workload = MixedWorkload /\ storage = EmptyStorage
       \/ \E fn \in Fns : workload = {BaseRequest(fn)}
                          /\ storage \in InitStorages(BaseRequest(fn))
    /\ request_locks = EmptyLocks
    /\ locks = [l \in Callers |-> FreshLock]
    /\ ongoing_requests = <<>>
    /\ calls = [c \in Callers |-> IdleCall]
    /\ tasks = [t \in Callers |-> NoTask]
    /\ bursts = 0
    /\ places = None /\ reminders = None /\ invites = None /\ payouts = None /\ webhooks = None

Init == InitCommon /\ faults = FALSE

InitFaults == InitCommon /\ faults = TRUE

Next ==
    \/ \E c \in Clients : \E req \in workload : Call(c, req)
    \/ \E c \in Callers : LockAcquired(c)
    \/ \E c \in Callers : CreatorResumes(c)
    \/ \E c \in Callers : WaiterResumes(c)
    \/ \E t \in Callers : HandlerStart(t)
    \/ \E t \in Callers : ActorCallReturns(t)
    \/ \E t \in Callers : ListItemsReturns(t)
    \/ OtherCalls
    \/ Tick

Spec == Init /\ [][Next]_vars

SpecFaults == InitFaults /\ [][Next]_vars

\* ------------------------------------------------------------ properties
Running(t) == tasks[t].pc \in {"ready", "actor_call", "list_items"}

Started(c) == calls[c].pc # "idle"

SameKey(c, d) == RequestKey(calls[c].req) = RequestKey(calls[d].req)

Succeeded(result) == result # NoneVal /\ result.status = 200

\* The review list a successful response carries.
ReviewsIn(result) == IF result.data = <<>> THEN <<>> ELSE result.data[1].reviews

\* C1: the calls for a key that arrive while its operation runs do not invoke
\* the operation themselves, and each receives the result of that invocation.
C1_SingleInvocation ==
    \A t \in Callers : tasks[t].pc = "done" =>
        \A c \in tasks[t].waiting :
            /\ tasks[c].pc = "none"
            /\ calls[c].pc = "returned" =>
                    calls[c].task = t /\ calls[c].result = tasks[t].result

\* C2: at most one invocation of the wrapped operation runs per key, also
\* after locks were evicted from the lock map while held or awaited.
C2_OneRunningPerKey ==
    \A t1, t2 \in Callers : t1 # t2 /\ Running(t1) /\ Running(t2) => ~SameKey(t1, t2)

\* A caller joined a running task through a lock created after the running
\* caller's lock was evicted.
C2_Witness ==
    \E c, d \in Callers :
        /\ c # d /\ SameKey(c, d)
        /\ Running(c) /\ calls[c].pc = "await_task" /\ calls[c].created
        /\ calls[d].pc = "await_task" /\ calls[d].task = c
        /\ calls[d].lock # calls[c].lock
        /\ locks[calls[c].lock].locked /\ locks[calls[d].lock].locked

\* C3: when the operation invoked for a key raises, the callers waiting on
\* that key receive that same error, and the operation is not invoked again
\* for them.
C3_ErrorFanOut ==
    \A t \in Callers : tasks[t].pc = "done" /\ tasks[t].result.status = 500 =>
        \A c \in tasks[t].waiting :
            /\ tasks[c].pc = "none"
            /\ calls[c].pc = "returned" => calls[c].result = tasks[t].result

\* C4: when the call that invoked the operation finishes, with a result or
\* an error, no in-flight entry is left for its key and the lock it held is
\* released, so that the next call for the key invokes the operation afresh.
C4_CleanupOnCompletion ==
    [][\A c \in Callers :
        (calls[c].pc = "await_task" /\ calls[c].created /\ calls'[c].pc = "returned") =>
            /\ RequestKey(calls[c].req) \notin DOMAIN ongoing_requests'
            /\ ~locks'[calls[c].lock].locked
            /\ LET k == RequestKey(calls[c].req) IN
               \* a newer lock object the map holds for the key after an eviction
               \* is held by nobody but a call that awaits a finished task
               (HasLock(request_locks', k) /\ locks'[request_locks'.entries[k].lock].locked) =>
                    \E d \in Callers \ {c} :
                        /\ calls'[d].lock = request_locks'.entries[k].lock
                        /\ calls'[d].pc = "await_task" /\ ~calls'[d].created
                        /\ tasks'[calls'[d].task].pc = "done"]_vars

\* After a creator returned, with a result or with an error, a later call for
\* its key invoked the operation afresh.
C4_Witness ==
    \E c, d \in Callers :
        /\ c # d /\ SameKey(c, d)
        /\ calls[c].pc = "returned" /\ calls[c].created
        /\ ~Succeeded(calls[c].result)
        /\ calls[d].created /\ Running(d)
        /\ ongoing_requests[RequestKey(calls[d].req)] = d

\* C5: a call whose (function, url, page) differs from every other call's
\* invokes the operation itself, waits for no other call and shares no result.
C5_DistinctKeysIndependent ==
    \A c \in Callers :
        (Started(c) /\ \A d \in Callers \ {c} : calls[d].req # calls[c].req) =>
            /\ calls[c].pc # "acquire"
            /\ calls[c].created /\ calls[c].task = c
            /\ \A d \in Callers \ {c} : calls[d].task # c /\ calls[d].lock # calls[c].lock

\* Two calls that differ in the page only run their operations at the same time.
C5_Witness ==
    \E c, d \in Callers :
        /\ c # d
        /\ calls[c].req.fn = calls[d].req.fn /\ calls[c].req.url = calls[d].req.url
        /\ calls[c].req.page # calls[d].req.page
        /\ Running(c) /\ Running(d)
        /\ tasks[c].fetched /\ tasks[d].fetched

\* The invocation t fetched at least one dataset item and answered with it.
FetchedItems(t) ==
    /\ tasks[t].pc = "done" /\ tasks[t].fetched /\ tasks[t].put = "ok"
    /\ Succeeded(tasks[t].result)
    /\ tasks[t].items >= 1

C7_CacheExpiryPath ==
    [][\A t \in Callers :
        LET req == calls[t].req
            ck == CacheKey(req) IN
        /\ (/\ tasks[t].pc = "ready" /\ tasks'[t].pc # "ready"
            /\ storage[ck] # NoEntry
            /\ now - storage[ck].timestamp > TtlHours) =>
                /\ tasks'[t].pc = "actor_call"
                /\ tasks'[t].fetched /\ ~tasks[t].fetched
        /\ (/\ tasks[t].cache = "stale"
            /\ tasks[t].pc # "done" /\ tasks'[t].pc = "done"
            /\ Succeeded(tasks'[t].result)) =>
                /\ tasks'[t].result.message # "Data retrieved from cache."
                /\ storage'[ck].timestamp = now
                /\ ReviewsIn(tasks'[t].result) = ReviewsIn(storage'[ck])]_vars

\* An entry written 24 hours before the start was read an hour later, and the
\* fetch replaced it.
C7_Witness ==
    \E t \in Callers :
        /\ tasks[t].pc = "done" /\ tasks[t].cache = "stale" /\ tasks[t].fetched
        /\ Succeeded(tasks[t].result)
        /\ storage[CacheKey(calls[t].req)].timestamp = now
        /\ storage[CacheKey(calls[t].req)].data # <<>>

\* C8: a handler call that ends in an error has not written the cache.
C8_ErrorsNeverWrite ==
    \A t \in Callers :
        tasks[t].pc = "done" /\ ~Succeeded(tasks[t].result) => tasks[t].put # "ok"

\* The clients of request r, and the invocations for r that called the actor.
CallersOf(r) == {c \in Callers : calls[c].req = r}

FetchesOf(r) == {t \in CallersOf(r) : tasks[t].fetched}

\* C9: two or more requests for the same endpoint, url and page, starting
\* from an empty cache and with upstream fetches that succeed with items,
\* call the actor once and all carry the same review data.
C9_ConcurrentSameRequest ==
    \A r \in workload :
        (/\ Cardinality(CallersOf(r)) >= 2
         /\ \A c \in CallersOf(r) : calls[c].pc = "returned"
         /\ \E t \in CallersOf(r) : tasks[t].cache = "absent"
         /\ FetchesOf(r) # {}
         /\ \A t \in FetchesOf(r) : FetchedItems(t)) =>
            /\ Cardinality(FetchesOf(r)) = 1
            /\ \A c, d \in CallersOf(r) :
                /\ Succeeded(calls[c].result)
                /\ ReviewsIn(calls[c].result) = ReviewsIn(calls[d].result)

\* The second request arrived while the first one's fetch was running.
C9_Witness ==
    \E c, d \in Callers :
        /\ c # d /\ calls[c].req = calls[d].req
        /\ calls[c].req.fn = "profile_trustpilot"
        /\ tasks[c].cache = "absent" /\ FetchedItems(c) /\ d \in tasks[c].waiting
        /\ calls[c].pc = "returned" /\ calls[d].pc = "returned"
        /\ ~tasks[d].fetched
        /\ ReviewsIn(calls[c].result) = ReviewsIn(calls[d].result)

\* C10: when the fetch succeeded and the cache write raises, the request
\* still succeeds with the fetched payload.
C10_PutFailureSwallowed ==
    \A t \in Callers :
        tasks[t].pc = "done" /\ tasks[t].put = "raised" =>
            /\ Succeeded(tasks[t].result)
            /\ tasks[t].result.message # "Data retrieved from cache."

\* C11: a failure while reading or parsing the cache entry is a cache miss:
\* the handler goes on to the fetch, and the request does not end with the
\* read's error.
C11_ReadFailureIsMiss ==
    \A t \in Callers :
        tasks[t].pc = "done" /\ tasks[t].cache = "error" =>
            ~(tasks[t].result.status = 500 /\ tasks[t].result.detail = "get")

\* C20: an entry whose age is exactly 24 hours is served from the cache,
\* without an upstream fetch.
C20_ExactlyTtlServed ==
    \A t \in Callers :
        tasks[t].cache = "at_ttl" =>
            /\ ~tasks[t].fetched
            /\ tasks[t].pc = "done" =>
                    /\ Succeeded(tasks[t].result)
                    /\ tasks[t].result.message = "Data retrieved from cache."

\* ------------------------------------------------------------ google_places
\* The wrapper and the scrape handlers at rest, for the runs of the other routes.
WrapperIdle ==
    /\ storage = EmptyStorage
    /\ request_locks = EmptyLocks
    /\ locks = [l \in Callers |-> FreshLock]
    /\ ongoing_requests = <<>>
    /\ calls = [c \in Callers |-> IdleCall]
    /\ tasks = [t \in Callers |-> NoTask]
    /\ bursts = 0
    /\ workload = {}

PlaceIds == {"p1", "p2"}

\* A review as the Apify Google Maps Reviews scraper returns it.
ApifyReview(i) == [name |-> i, stars |-> 5]

\* The datasets the actor run can hold for a place.
PlaceDatasets == {<<>>, <<ApifyReview(1)>>, <<ApifyReview(1), ApifyReview(2)>>}

transform_apify_review_to_review_data(apify_review) ==
    [author_name |-> apify_review.name, rating |-> apify_review.stars]

\* reviews = [transform(...) for apify_review in dataset_items]
TransformAll(items) == [i \in 1..Len(items) |-> transform_apify_review_to_review_data(items[i])]

IdlePlaceCall ==
    [pc |-> "idle", place_id |-> "", fetched |-> FALSE, failed |-> "none", result |-> NoneVal]

\* return PlaceDetailsResponse(..., reviews=reviews, ...)
PlaceDetailsResponse(place_id, reviews) ==
    [status |-> 200, place_id |-> place_id, reviews |-> reviews]

\* raise HTTPException(status_code=500, detail=...)
PlaceError(detail) == [status |-> 500, detail |-> detail]

\* The call c returns or raises.
PlaceReturns(c, failed, result) ==
    [places EXCEPT !.calls[c].pc = "returned", !.calls[c].failed = failed,
                   !.calls[c].result = result]

\* get_place_details from its start, through fetch_reviews_from_apify's cache
\* block, to `await actor_client.call(...)`.
GetPlaceDetails(c, place_id) ==
    /\ places.calls[c].pc = "idle"
    /\ \E api_key \in SecretOutcomes, details \in {"OK", "NOT_OK", "RequestException"},
          get_ok \in StorageOutcomes, apify_api_key \in SecretOutcomes :
        LET pl == [places EXCEPT !.calls[c].place_id = place_id]
            entry == places.cache[place_id]
        IN places' =
            IF ~api_key
            THEN [pl EXCEPT !.calls[c].pc = "returned",
                            !.calls[c].result = PlaceError("Google Places API key not configured")]
            ELSE IF details = "RequestException"
            THEN [pl EXCEPT !.calls[c].pc = "returned",
                            !.calls[c].result = PlaceError("Failed to fetch place details")]
            ELSE IF details = "NOT_OK" \/ ~get_ok
            THEN \* the HTTPException(400), or the cache read's exception, caught
                 \* by `except Exception`
                 [pl EXCEPT !.calls[c].pc = "returned",
                            !.calls[c].result = PlaceError("Internal server error")]
            ELSE IF entry # NoEntry /\ IsFresh(entry, now)
            THEN [pl EXCEPT !.calls[c].pc = "returned",
                            !.calls[c].result = PlaceDetailsResponse(place_id, entry.reviews)]
            ELSE IF ~apify_api_key
            THEN [pl EXCEPT !.calls[c].pc = "returned", !.calls[c].failed = "secret",
                            !.calls[c].result = PlaceDetailsResponse(place_id, <<>>)]
            ELSE [pl EXCEPT !.calls[c].pc = "actor_call", !.calls[c].fetched = TRUE]
    /\ UNCHANGED <<wrapperVars, webhooks, reminders, invites, payouts>>

\* fetch_reviews_from_apify from the dataset items to its return, and
\* get_place_details to its return.
PlaceFinish(c, items) ==
    LET place_id == places.calls[c].place_id
        reviews == TransformAll(items)
    IN \E put_ok \in StorageOutcomes :
        places' =
            IF put_ok
            THEN [PlaceReturns(c, "none", PlaceDetailsResponse(place_id, reviews))
                    EXCEPT !.cache[place_id] = [timestamp |-> now, reviews |-> reviews]]
            ELSE PlaceReturns(c, "put", PlaceDetailsResponse(place_id, <<>>))

\* `await actor_client.call(run_input=run_input)` returns or raises.
PlaceActorCallReturns(c) ==
    /\ places.calls[c].pc = "actor_call"
    /\ \/ places' = PlaceReturns(c, "actor",
                        PlaceDetailsResponse(places.calls[c].place_id, <<>>))
       \/ PlaceFinish(c, <<>>)
       \/ places' = [places EXCEPT !.calls[c].pc = "list_items"]
    /\ UNCHANGED <<wrapperVars, webhooks, reminders, invites, payouts>>

\* `await dataset_client.list_items()` returns or raises.
PlaceListItemsReturns(c) ==
    /\ places.calls[c].pc = "list_items"
    /\ \/ places' = PlaceReturns(c, "list",
                        PlaceDetailsResponse(places.calls[c].place_id, <<>>))
       \/ \E items \in PlaceDatasets : PlaceFinish(c, items)
    /\ UNCHANGED <<wrapperVars, webhooks, reminders, invites, payouts>>

InitPlaces ==
    /\ now = 0
    /\ faults = TRUE
    /\ WrapperIdle
    /\ \E cache \in [PlaceIds -> {NoEntry} \cup
                        {[timestamp |-> ts, reviews |-> <<>>] : ts \in InitStamps}] :
        places = [cache |-> cache, calls |-> [c \in Callers |-> IdlePlaceCall]]
    /\ reminders = None /\ invites = None /\ payouts = None /\ webhooks = None

NextPlaces ==
    \/ \E c \in Callers : \E place_id \in PlaceIds : GetPlaceDetails(c, place_id)
    \/ \E c \in Callers : PlaceActorCallReturns(c)
    \/ \E c \in Callers : PlaceListItemsReturns(c)
    \/ Tick

SpecPlaces == InitPlaces /\ [][NextPlaces]_vars

\* The Apify fetch of call c is in flight.
PlaceFetching(c) == places.calls[c].pc \in {"actor_call", "list_items"}

\* C12: when the upstream credential is missing or the upstream provider call
\* fails, the request is answered with a 500-class error, never with a success.
C12_UpstreamFailureIs500 ==
    \A c \in Callers :
        (places.calls[c].pc = "returned" /\ places.calls[c].failed \in {"secret", "actor", "list"})
            => places.calls[c].result.status = 500

\* C14: at most one Apify reviews fetch per place_id is in flight at any time.
C14_PlacesSingleFlight ==
    \A c, d \in Callers :
        (c # d /\ PlaceFetching(c) /\ PlaceFetching(d)) =>
            places.calls[c].place_id # places.calls[d].place_id

\* ------------------------------------------------------------ cancellation
\* asyncio.CancelledError leaving a coroutine: no response is sent.
CancelledError(t) == [status |-> 0, error |-> "CancelledError", detail |-> "", task |-> t]

\* The caller c is cancelled (its client went away) while it is suspended in
\* `await request_future` or `await _ongoing_requests[cache_key]`: Task.cancel
\* cancels the task the caller awaits, and the handler, which catches
\* Exception only, ends with CancelledError.  The caller resumes with that
\* error through CreatorResumes or WaiterResumes.
CancelAwaiting(c) ==
    /\ calls[c].pc = "await_task"
    /\ Running(calls[c].task)
    /\ tasks' = TaskDone(tasks, calls[c].task, CancelledError(calls[c].task))
    /\ UNCHANGED <<now, storage, faults, request_locks, locks, ongoing_requests, calls, bursts,
                   workload>>
    /\ UNCHANGED appVars

\* The caller c is cancelled while it waits for the lock: Lock.acquire takes
\* it out of the queue and re-raises.
CancelWaiting(c) ==
    /\ calls[c].pc = "acquire"
    /\ locks' = [locks EXCEPT ![calls[c].lock].waiters = SelectSeq(@, LAMBDA w : w # c)]
    /\ calls' = [calls EXCEPT ![c].pc = "returned", ![c].result = CancelledError(0)]
    /\ UNCHANGED <<now, storage, faults, request_locks, ongoing_requests, tasks, bursts,
                   workload>>
    /\ UNCHANGED appVars

NextCancel ==
    \/ Next
    \/ \E c \in Callers : CancelAwaiting(c)
    \/ \E c \in Callers : CancelWaiting(c)

SpecCancel == Init /\ [][NextCancel]_vars

\* C13: an operation that was created and registered runs to completion,
\* also when the caller that created it is cancelled: no invocation ends by
\* cancellation.
C13_RunsToCompletion ==
    \A t \in Callers : tasks[t].pc = "done" => tasks[t].result.status # 0

\* ---------------------------------------------------------------- reminders
\* reminders.rows is the reminders table in insertion order (a row's id is its
\* index), reminders.outbox the ids of the reminders whose message went out,
\* reminders.log those ids in the order of the dispatches,
\* reminders.calls the requests in progress.  reminders.cancelled records the
\* ids that completed cancel_reminders calls set to 'cancelled', and
\* reminders.late the ids whose message went out after that.
ClientIds == {"c1", "c2"}

MaxTemplates == 2

ReminderRow(client_id, scheduled_at) ==
    [client_id |-> client_id, sent_status |-> "pending", scheduled_at |-> scheduled_at]

IdleReminderCall ==
    [pc |-> "idle", op |-> "", client_id |-> "", due |-> <<>>, to_insert |-> 0,
     sent_count |-> 0, failed_ids |-> <<>>, status |-> 0, message |-> ""]

\* The ids of the rows of a table, in table order.
RowIds(rows) == [i \in 1..Len(rows) |-> i]

\* .eq("client_id", client_id).eq("sent_status", "pending")
PendingOf(rows, client_id) ==
    SelectSeq(RowIds(rows),
              LAMBDA i : rows[i].client_id = client_id /\ rows[i].sent_status = "pending")

\* .eq("sent_status", "pending").lt("scheduled_at", now.isoformat())
DueReminders(rows, clock) ==
    SelectSeq(RowIds(rows),
              LAMBDA i : rows[i].sent_status = "pending" /\ rows[i].scheduled_at < clock)

Range(seq) == {seq[i] : i \in 1..Len(seq)}

\* The request of caller c is answered.
ReminderReturn(rm, c, status, message) ==
    [rm EXCEPT !.calls[c].pc = "returned", !.calls[c].status = status,
               !.calls[c].message = message]

\* cancel_reminders: one update of the client's pending rows.
CancelReminders(c, client_id) ==
    /\ reminders.calls[c].pc = "idle"
    /\ LET ids == Range(PendingOf(reminders.rows, client_id))
           rm == [reminders EXCEPT
                    !.calls[c].op = "cancel_reminders", !.calls[c].client_id = client_id,
                    !.rows = [i \in 1..Len(@) |->
                                IF i \in ids THEN [@[i] EXCEPT !.sent_status = "cancelled"]
                                ELSE @[i]],
                    !.cancelled = @ \cup ids]
       IN reminders' = ReminderReturn(rm, c, 200, "Reminders cancelled successfully.")
    /\ UNCHANGED <<wrapperVars, webhooks, places, invites, payouts>>

\* process_reminders: the select of the due reminders.
ProcessFetch(c) ==
    /\ reminders.calls[c].pc = "idle"
    /\ LET due == DueReminders(reminders.rows, now)
           rm == [reminders EXCEPT !.calls[c].op = "process_reminders", !.calls[c].due = due]
       IN reminders' =
            IF due = <<>> THEN ReminderReturn(rm, c, 200, "No due reminders to process.")
            ELSE [rm EXCEPT !.calls[c].pc = "send"]
    /\ UNCHANGED <<wrapperVars, webhooks, places, invites, payouts>>

\* The loop goes on to the next reminder, or the request returns.
ProcessNext(rm, c) ==
    LET rest == Tail(rm.calls[c].due)
        r2 == [rm EXCEPT !.calls[c].due = rest]
    IN IF rest # <<>> THEN [r2 EXCEPT !.calls[c].pc = "send"]
       ELSE ReminderReturn(r2, c, 200,
                IF r2.calls[c].failed_ids # <<>> THEN "Processed reminders."
                ELSE "Successfully sent reminders.")

\* process_reminders, one reminder of the loop up to the message: template,
\* client, channel, then SendGrid or Twilio; any exception puts the id in
\* failed_ids.
ProcessSend(c) ==
    /\ reminders.calls[c].pc = "send"
    /\ LET id == Head(reminders.calls[c].due) IN
       \E ok \in BOOLEAN :
         reminders' =
            IF ok
            THEN [reminders EXCEPT
                    !.outbox = @ \cup {id},
                    !.log = Append(@, id),
                    !.late = IF id \in reminders.cancelled THEN @ \cup {id} ELSE @,
                    !.calls[c].pc = "update"]
            ELSE ProcessNext([reminders EXCEPT !.calls[c].failed_ids = Append(@, id)], c)
    /\ UNCHANGED <<wrapperVars, webhooks, places, invites, payouts>>

\* process_reminders: update({"sent_status": "sent"}).eq("id", reminder['id'])
ProcessUpdate(c) ==
    /\ reminders.calls[c].pc = "update"
    /\ LET id == Head(reminders.calls[c].due) IN
       \E ok \in BOOLEAN :
         reminders' =
            IF ok
            THEN ProcessNext([reminders EXCEPT !.rows[id].sent_status = "sent",
                                               !.calls[c].sent_count = @ + 1], c)
            ELSE ProcessNext([reminders EXCEPT !.calls[c].failed_ids = Append(@, id)], c)
    /\ UNCHANGED <<wrapperVars, webhooks, places, invites, payouts>>

\* create_reminders_if_not_exists from the check for pending reminders to the
\* insert: found says whether the client and the company exist, templates is
\* the number of formal templates that give a reminder.
CreateCheck(c, client_id) ==
    /\ reminders.calls[c].pc = "idle"
    /\ \E found \in BOOLEAN, templates \in 0..MaxTemplates :
        LET rm == [reminders EXCEPT !.calls[c].op = "create_reminders_if_not_exists",
                                    !.calls[c].client_id = client_id]
        IN reminders' =
            IF PendingOf(reminders.rows, client_id) # <<>>
            THEN ReminderReturn(rm, c, 200, "already has existing pending reminders")
            ELSE IF ~found
            THEN \* the HTTPException(404) is caught by `except Exception`
                 ReminderReturn(rm, c, 500, "not found")
            ELSE IF templates = 0
            THEN ReminderReturn(rm, c, 200, "No reminders created.")
            ELSE [rm EXCEPT !.calls[c].pc = "insert", !.calls[c].to_insert = templates]
    /\ UNCHANGED <<wrapperVars, webhooks, places, invites, payouts>>

\* create_reminders_if_not_exists: insert(reminders_to_insert), one row per
\* template, the i-th scheduled i - 1 hours from now.
CreateInsert(c) ==
    /\ reminders.calls[c].pc = "insert"
    /\ \E ok \in BOOLEAN :
        reminders' =
            IF ok
            THEN ReminderReturn(
                    [reminders EXCEPT !.rows = @ \o
                        [i \in 1..reminders.calls[c].to_insert |->
                            ReminderRow(reminders.calls[c].client_id, now + i - 1)]],
                    c, 200, "Successfully created")
            ELSE ReminderReturn(reminders, c, 500, "insert")
    /\ UNCHANGED <<wrapperVars, webhooks, places, invites, payouts>>

\* The table before the requests: empty, or with reminders that are due.
InitReminderRows ==
    {<<>>, <<ReminderRow("c1", 0 - 1)>>,
     <<ReminderRow("c1", 0 - 1), ReminderRow("c1", 0)>>,
     <<ReminderRow("c1", 0 - 1), ReminderRow("c2", 0 - 1)>>}

InitReminders ==
    /\ now = 0
    /\ faults = FALSE
    /\ WrapperIdle
    /\ \E rows \in InitReminderRows :
        reminders = [rows |-> rows, outbox |-> {}, log |-> <<>>, cancelled |-> {}, late |-> {},
                     calls |-> [c \in Callers |-> IdleReminderCall]]
    /\ places = None /\ invites = None /\ payouts = None /\ webhooks = None

NextReminders ==
    \/ \E c \in Callers : \E client_id \in ClientIds : CancelReminders(c, client_id)
    \/ \E c \in Callers : ProcessFetch(c)
    \/ \E c \in Callers : ProcessSend(c)
    \/ \E c \in Callers : ProcessUpdate(c)
    \/ \E c \in Callers : \E client_id \in ClientIds : CreateCheck(c, client_id)
    \/ \E c \in Callers : CreateInsert(c)
    \/ Tick

SpecReminders == InitReminders /\ [][NextReminders]_vars

\* C15: a reminder that a completed cancel_reminders call found pending is
\* afterwards neither sent nor set to 'sent'.
C15_CancelledNeverSent ==
    /\ reminders.late = {}
    /\ \A id \in reminders.cancelled : reminders.rows[id].sent_status # "sent"

\* C16: create_reminders_if_not_exists inserts only when the client has no
\* pending reminder at the time of the insert.
C16_InsertOnlyIfNonePending ==
    [][\A c \in Callers :
        (reminders.calls[c].pc = "insert" /\ Len(reminders'.rows) > Len(reminders.rows)) =>
            PendingOf(reminders.rows, reminders.calls[c].client_id) = <<>>]_vars

\* ------------------------------------------------------------------ invites
\* invites.users is the number of users of the company, invites.sub its active
\* subscription row, invites.rows the invites table (a row's token is its
\* index), invites.calls the requests in progress.  A route declared
\* `async def` whose body never awaits holds the event loop of its server
\* process from its first line to its return: requests interleave only when
\* they run in different server processes (Workers).
Workers == {1, 2}

InviteDays == 14

Emails == {"a", "b"}

\* PLANS[plan]["included_users"]
PLANS == [starter |-> 3, business |-> 10]

NoSubscription == [missing |-> TRUE]

\* The subscription rows: the included users not stored, stored, and the
\* legacy price.
Subscriptions ==
    {NoSubscription,
     [plan_type |-> "starter", included_users |-> 0, extra_seats |-> 0, legacy |-> FALSE],
     [plan_type |-> "custom", included_users |-> 2, extra_seats |-> 1, legacy |-> FALSE],
     [plan_type |-> "starter", included_users |-> 0, extra_seats |-> 0, legacy |-> TRUE]}

\* The subscription is active and not on the legacy price.
Limited(sub) == sub # NoSubscription /\ ~sub.legacy

\* included_users, resolved from the plan when the row does not store it
IncludedUsers(sub) ==
    IF sub.included_users = 0 /\ sub.plan_type \in DOMAIN PLANS
    THEN PLANS[sub.plan_type] ELSE sub.included_users

\* .eq("company_id", company_id).eq("status", "Pending"), count="exact"
PendingCount(rows) == Cardinality({i \in 1..Len(rows) : rows[i].status = "Pending"})

\* _compute_user_limit
compute_user_limit(sub, users, rows) ==
    IF sub = NoSubscription
    THEN [allowed |-> TRUE, max_users |-> 1, current_users |-> 0]
    ELSE IF sub.legacy
    THEN [allowed |-> TRUE, max_users |-> 999, current_users |-> 0]
    ELSE LET max_users == IncludedUsers(sub) + sub.extra_seats
             total_current == users + PendingCount(rows)
         IN [allowed |-> total_current < max_users, max_users |-> max_users,
             current_users |-> total_current]

IdleInviteCall ==
    [pc |-> "idle", op |-> "", worker |-> 0, email |-> "", token |-> 0, status |-> 0,
     valid |-> FALSE, message |-> "", expired_it |-> FALSE]

\* The server process w is not inside another request.
WorkerFree(cs, w, c) ==
    \A d \in Callers \ {c} : cs[d].worker = w => cs[d].pc \in {"idle", "returned"}

InviteReturn(iv, c, status, valid, message) ==
    [iv EXCEPT !.calls[c].pc = "returned", !.calls[c].status = status,
               !.calls[c].valid = valid, !.calls[c].message = message]

\* create_and_send_invite up to the insert: the company, the user limit, the
\* duplicate check.
CreateInviteCheck(c, w, email) ==
    /\ invites.calls[c].pc = "idle"
    /\ WorkerFree(invites.calls, w, c)
    /\ LET iv == [invites EXCEPT !.calls[c].op = "create_and_send_invite",
                                 !.calls[c].worker = w, !.calls[c].email = email]
           limit == compute_user_limit(invites.sub, invites.users, invites.rows)
           dup == \E i \in 1..Len(invites.rows) :
                    invites.rows[i].email = email /\ invites.rows[i].status = "Pending"
       IN invites' =
            IF ~limit.allowed THEN InviteReturn(iv, c, 403, FALSE, "user_limit_reached")
            ELSE IF dup THEN InviteReturn(iv, c, 409, FALSE, "A pending invitation already exists")
            ELSE [iv EXCEPT !.calls[c].pc = "insert"]
    /\ UNCHANGED <<wrapperVars, webhooks, places, reminders, payouts>>

\* create_and_send_invite: the insert of the invite, the email, the return.
CreateInviteInsert(c) ==
    /\ invites.calls[c].pc = "insert"
    /\ \E ok \in BOOLEAN :
        invites' =
            IF ok
            THEN InviteReturn(
                    [invites EXCEPT !.rows = Append(@,
                        [email |-> invites.calls[c].email, status |-> "Pending",
                         expires_at |-> now + InviteDays * 24])],
                    c, 200, FALSE, "created")
            ELSE InviteReturn(invites, c, 500, FALSE, "Failed to create invitation record.")
    /\ UNCHANGED <<wrapperVars, webhooks, places, reminders, payouts>>

\* (mutant) an invite counts as expired from its expiry time on
InviteExpiredAt(invite, clock) == clock >= invite.expires_at

\* datetime.datetime.now(datetime.timezone.utc) > expires_at_dt
InviteExpired(invite, clock) == clock > invite.expires_at

\* validate_invite_token_endpoint up to its return or to the update of an
\* expired invite.
ValidateInvite(c, w, token) ==
    /\ invites.calls[c].pc = "idle"
    /\ WorkerFree(invites.calls, w, c)
    /\ LET iv == [invites EXCEPT !.calls[c].op = "validate_invite_token_endpoint",
                                 !.calls[c].worker = w, !.calls[c].token = token]
       IN \E none \in BOOLEAN : invites' =
            IF token \notin 1..Len(invites.rows)
            THEN \* maybe_single().execute() gives a response without data or,
                 \* in other releases of the client, None: result.data raises
                 IF none THEN InviteReturn(iv, c, 500, FALSE, "Internal Server Error")
                 ELSE InviteReturn(iv, c, 200, FALSE, "Invalid invitation token.")
            ELSE IF invites.rows[token].status # "Pending"
            THEN InviteReturn(iv, c, 200, FALSE, "Invitation has already been")
            ELSE IF InviteExpired(invites.rows[token], now)
            THEN [iv EXCEPT !.calls[c].pc = "expire"]
            ELSE InviteReturn(iv, c, 200, TRUE, "Invitation token is valid.")
    /\ UNCHANGED <<wrapperVars, webhooks, places, reminders, payouts>>

\* validate_invite_token_endpoint: update({"status": "Expired"}).eq("token", ...)
ValidateExpire(c) ==
    /\ invites.calls[c].pc = "expire"
    /\ invites' = InviteReturn(
            [invites EXCEPT !.rows[invites.calls[c].token].status = "Expired",
                            !.calls[c].expired_it = TRUE],
            c, 200, FALSE, "Invitation token has expired.")
    /\ UNCHANGED <<wrapperVars, webhooks, places, reminders, payouts>>

InitInviteRows ==
    {<<>>,
     <<[email |-> "a", status |-> "Pending", expires_at |-> 0]>>,
     <<[email |-> "a", status |-> "Accepted", expires_at |-> 0]>>}

InitInvites ==
    /\ now = 0
    /\ faults = FALSE
    /\ WrapperIdle
    /\ \E users \in {2, 3}, sub \in Subscriptions, rows \in InitInviteRows :
        /\ Limited(sub) => users + PendingCount(rows) <= IncludedUsers(sub) + sub.extra_seats
        /\ invites = [users |-> users, sub |-> sub, rows |-> rows,
                      calls |-> [c \in Callers |-> IdleInviteCall]]
    /\ places = None /\ reminders = None /\ payouts = None /\ webhooks = None

NextInvites ==
    \/ \E c \in Callers : \E w \in Workers : \E email \in Emails : CreateInviteCheck(c, w, email)
    \/ \E c \in Callers : CreateInviteInsert(c)
    \/ \E c \in Callers : \E w \in Workers : \E token \in 1..2 : ValidateInvite(c, w, token)
    \/ \E c \in Callers : ValidateExpire(c)
    \/ Tick

SpecInvites == InitInvites /\ [][NextInvites]_vars

\* C17: for a company with an active subscription on a non-legacy price, the
\* users plus the Pending invites never exceed included_users + extra_seats.
C17_UserLimitHolds ==
    Limited(invites.sub) =>
        invites.users + PendingCount(invites.rows)
            <= IncludedUsers(invites.sub) + invites.sub.extra_seats

InviteRowIds == 1..Len(invites.rows)

\* C18: a validation returns valid = TRUE exactly when its token exists, is
\* Pending and the time is not after expires_at; a validation that finds a
\* Pending invite past its expiry sets its status to Expired and returns
\* valid = FALSE; an Expired invite stays Expired, so every later validation
\* of its token returns valid = FALSE.
C18_ValidateInvite ==
    [][/\ \A c \in Callers :
            LET before == invites.calls[c]
                after == invites'.calls[c]
                token == after.token
                usable == /\ token \in InviteRowIds
                          /\ invites.rows[token].status = "Pending"
                          /\ ~(now > invites.rows[token].expires_at)
            IN (/\ after.op = "validate_invite_token_endpoint"
                /\ before.pc # after.pc
                /\ after.pc \in {"returned", "expire"})
               => /\ after.pc = "returned" => (after.valid <=> usable)
                  /\ (/\ before.pc = "idle"
                      /\ token \in InviteRowIds
                      /\ invites.rows[token].status = "Pending"
                      /\ now > invites.rows[token].expires_at) => after.pc = "expire"
                  /\ before.pc = "expire" =>
                        /\ after.pc = "returned"
                        /\ ~after.valid
                        /\ invites'.rows[token].status = "Expired"
       /\ \A i \in InviteRowIds :
            invites.rows[i].status = "Expired" =>
                /\ i \in 1..Len(invites'.rows)
                /\ invites'.rows[i].status = "Expired"]_vars

\* One validation expired a Pending invite and a later validation of the same
\* token found it Expired and returned valid = FALSE.
C18_Witness ==
    \E c, d \in Callers :
        /\ c # d
        /\ invites.calls[c].pc = "returned" /\ invites.calls[c].expired_it
        /\ invites.calls[d].pc = "returned"
        /\ invites.calls[d].op = "validate_invite_token_endpoint"
        /\ invites.calls[d].token = invites.calls[c].token
        /\ invites.calls[d].message = "Invitation has already been"
        /\ ~invites.calls[d].valid
        /\ invites.rows[invites.calls[c].token].status = "Expired"

\* ------------------------------------------------------------------ payouts
\* payouts.lead is the lead_management row of one lead, payouts.referrer the
\* referrer it is referred by, payouts.rows the payouts table (a row's id is
\* its index), payouts.transfers the payout ids Stripe created a transfer for,
\* payouts.calls the trigger_payout requests for the lead.
PayoutMethods == {"stripe_connect", "paypal"}

IdlePayoutCall ==
    [pc |-> "idle", worker |-> 0, payout_id |-> 0, success |-> FALSE, error |-> ""]

PayoutReturn(p, c, success, error) ==
    [p EXCEPT !.calls[c].pc = "returned", !.calls[c].success = success,
              !.calls[c].error = error]

\* trigger_payout, steps 1 to 4: the lead and its checks.
PayoutCheck(c, w) ==
    /\ payouts.calls[c].pc = "idle"
    /\ WorkerFree(payouts.calls, w, c)
    /\ LET p == [payouts EXCEPT !.calls[c].worker = w]
       IN payouts' =
            IF payouts.lead.status # "became_customer"
            THEN PayoutReturn(p, c, FALSE, "Payout can only be triggered for leads with 'became_customer' status")
            ELSE IF payouts.lead.payout_triggered
            THEN PayoutReturn(p, c, FALSE, "Payout has already been triggered for this lead")
            ELSE [p EXCEPT !.calls[c].pc = "insert"]
    /\ UNCHANGED <<wrapperVars, webhooks, places, reminders, invites>>

\* trigger_payout, step 5: the payout record, status 'pending'.
PayoutInsert(c) ==
    /\ payouts.calls[c].pc = "insert"
    /\ \E ok \in BOOLEAN :
        payouts' =
            IF ok
            THEN [payouts EXCEPT !.rows = Append(@, [status |-> "pending", transfer |-> FALSE]),
                                 !.calls[c].payout_id = Len(payouts.rows) + 1,
                                 !.calls[c].pc =
                                    IF payouts.referrer.payout_method = "stripe_connect"
                                    THEN "transfer" ELSE "lead"]
            ELSE PayoutReturn(payouts, c, FALSE, "Failed to create payout record")
    /\ UNCHANGED <<wrapperVars, webhooks, places, reminders, invites>>

\* trigger_payout, step 6 up to stripe.Transfer.create.
PayoutTransfer(c) ==
    /\ payouts.calls[c].pc = "transfer"
    /\ LET id == payouts.calls[c].payout_id
           failed == [payouts EXCEPT !.rows[id].status = "failed"]
       IN \E stripe_ok \in BOOLEAN :
            payouts' =
                IF ~payouts.referrer.stripe_connect_account_id
                THEN PayoutReturn(failed, c, FALSE, "Referrer has no Stripe Connect account configured")
                ELSE IF ~payouts.referrer.stripe_connect_payouts_enabled
                THEN PayoutReturn(failed, c, FALSE, "Stripe Connect payouts not enabled for this referrer")
                ELSE IF ~stripe_ok
                THEN PayoutReturn(failed, c, FALSE, "Stripe transfer failed")
                ELSE [payouts EXCEPT !.transfers = @ \cup {id},
                                      !.calls[c].pc = "update"]
    /\ UNCHANGED <<wrapperVars, webhooks, places, reminders, invites>>

\* trigger_payout, step 6 after the transfer: the payout record gets the
\* transfer; a failure of the request is caught by the `except Exception` of
\* the route.
PayoutUpdate(c) ==
    /\ payouts.calls[c].pc = "update"
    /\ LET id == payouts.calls[c].payout_id
       IN \E ok \in BOOLEAN : \E final_status \in {"completed", "processing"} :
            payouts' =
                IF ok
                THEN [payouts EXCEPT !.rows[id] = [status |-> final_status, transfer |-> TRUE],
                                     !.calls[c].pc = "lead"]
                ELSE PayoutReturn(payouts, c, FALSE, "Internal error")
    /\ UNCHANGED <<wrapperVars, webhooks, places, reminders, invites>>

\* trigger_payout, steps 7 to 9: the lead is marked, the call returns.
PayoutLead(c) ==
    /\ payouts.calls[c].pc = "lead"
    /\ \E ok \in BOOLEAN :
        payouts' =
            IF ok
            THEN PayoutReturn(
                    [payouts EXCEPT !.lead.payout_triggered = TRUE,
                                    !.lead.payout_id = payouts.calls[c].payout_id],
                    c, TRUE, "")
            ELSE PayoutReturn(payouts, c, FALSE, "Internal error")
    /\ UNCHANGED <<wrapperVars, webhooks, places, reminders, invites>>

InitPayouts ==
    /\ now = 0
    /\ faults = FALSE
    /\ WrapperIdle
    /\ \E status \in {"became_customer", "contacted"}, method \in PayoutMethods,
          account \in BOOLEAN, enabled \in BOOLEAN :
        payouts = [lead |-> [status |-> status, payout_triggered |-> FALSE, payout_id |-> 0],
                   referrer |-> [payout_method |-> method,
                                 stripe_connect_account_id |-> account,
                                 stripe_connect_payouts_enabled |-> enabled],
                   rows |-> <<>>,
                   transfers |-> {},
                   calls |-> [c \in Callers |-> IdlePayoutCall]]
    /\ places = None /\ reminders = None /\ invites = None /\ webhooks = None

NextPayouts ==
    \/ \E c \in Callers : \E w \in Workers : PayoutCheck(c, w)
    \/ \E c \in Callers : PayoutInsert(c)
    \/ \E c \in Callers : PayoutTransfer(c)
    \/ \E c \in Callers : PayoutUpdate(c)
    \/ \E c \in Callers : PayoutLead(c)

SpecPayouts == InitPayouts /\ [][NextPayouts]_vars

\* C19: for the lead at most one Stripe transfer is created and at most one
\* payout record has a status other than 'failed'.
C19_AtMostOnePayout ==
    /\ Cardinality(payouts.transfers) <= 1
    /\ Cardinality({i \in 1..Len(payouts.rows) : payouts.rows[i].status # "failed"}) <= 1

\* ------------------------------------------------- the lock map's cleanup
\* The step is the finally block of caller c: the creator resumes and returns.
Completes(c) == calls[c].pc = "await_task" /\ calls[c].created /\ calls'[c].pc = "returned"

\* C21: a completing call that finds more than LockLimit entries keeps the
\* KeepLocks most recently inserted ones and leaves a smaller map alone, so
\* after a call's cleanup the map holds at most LockLimit entries.
C21_LockMapBounded ==
    [][/\ (\E c \in Callers : Completes(c)) =>
            /\ request_locks'.size <= LockLimit
            /\ request_locks.size <= LockLimit => request_locks' = request_locks
            /\ request_locks.size > LockLimit =>
                /\ request_locks'.size = KeepLocks
                /\ \A k \in RequestKeys :
                    HasLock(request_locks', k) <=>
                        /\ HasLock(request_locks, k)
                        /\ request_locks.size - request_locks.entries[k].pos < KeepLocks
                /\ \A k \in DOMAIN request_locks'.entries :
                    /\ request_locks'.entries[k].lock = request_locks.entries[k].lock
                    /\ request_locks'.size - request_locks'.entries[k].pos
                            = request_locks.size - request_locks.entries[k].pos
       /\ bursts' # bursts => request_locks'.size <= LockLimit]_vars

\* A call completed with LockLimit + 1 entries in the map: KeepLocks are
\* left, the newest of them is the lock of the call's own key.
C21_Witness ==
    \E c \in Callers :
        /\ calls[c].pc = "returned" /\ calls[c].created
        /\ request_locks.size = KeepLocks
        /\ HasLock(request_locks, RequestKey(calls[c].req))
        /\ request_locks.entries[RequestKey(calls[c].req)].pos = KeepLocks

\* C22: the lock of a key is removed from the lock map only by a call for
\* that key, in its finally block, where it holds the key's lock.
C22_OnlyOwnKeyRemoved ==
    [][\A k \in RequestKeys :
        (HasLock(request_locks, k) /\ ~HasLock(request_locks', k)) =>
            \E c \in Callers :
                /\ Completes(c)
                /\ RequestKey(calls[c].req) = k
                /\ request_locks.entries[k].lock = calls[c].lock]_vars

\* ------------------------------------------- requests sharing a cache entry
\* Two urls that differ in the fragment only (profile_booking), two pages of
\* one url (profile_provenexpert).
AliasWorkloads ==
    {{BaseRequest("profile_booking"),
      [BaseRequest("profile_booking") EXCEPT !.url.fragment = "x"]},
     {BaseRequest("profile_provenexpert"),
      [BaseRequest("profile_provenexpert") EXCEPT !.page = 2]}}

InitAlias ==
    /\ now = 0
    /\ faults = FALSE
    /\ workload \in AliasWorkloads
    /\ \E r \in workload : storage \in InitStorages(r)
    /\ request_locks = EmptyLocks
    /\ locks = [l \in Callers |-> FreshLock]
    /\ ongoing_requests = <<>>
    /\ calls = [c \in Callers |-> IdleCall]
    /\ tasks = [t \in Callers |-> NoTask]
    /\ bursts = 0
    /\ places = None /\ reminders = None /\ invites = None /\ payouts = None /\ webhooks = None

SpecAlias == InitAlias /\ [][Next]_vars

\* The invocation t is between its call of the actor and its return.
Fetching(t) == tasks[t].pc \in {"actor_call", "list_items"}

\* C23: two upstream fetches that write the same cache entry are never in
\* flight at the same time, whatever the single-flight keys of their requests.
C23_SameEntrySameKey ==
    \A t1, t2 \in Callers :
        (t1 # t2 /\ Fetching(t1) /\ Fetching(t2)) =>
            CacheKey(calls[t1].req) # CacheKey(calls[t2].req)

\* C24: after a fetch of profile_provenexpert or profile_anwalt that returned
\* no dataset items was cached, a request for the same url and page within
\* 24 hours is answered from the cache and starts no fetch.
C24_EmptyResultServed ==
    [][\A t, t1 \in Callers :
        (/\ t # t1 /\ calls[t].req = calls[t1].req
         /\ calls[t].req.fn \in {"profile_provenexpert", "profile_anwalt"}
         /\ tasks[t1].pc = "done" /\ tasks[t1].fetched /\ tasks[t1].put = "ok"
         /\ tasks[t1].items = 0
         /\ storage[CacheKey(calls[t].req)].data = <<>>
         /\ now - storage[CacheKey(calls[t].req)].timestamp < TtlHours
         /\ tasks[t].pc = "ready" /\ tasks'[t].pc # "ready") =>
            /\ tasks'[t].pc = "done" /\ ~tasks'[t].fetched
            /\ Succeeded(tasks'[t].result)
            /\ tasks'[t].result.message = "Data retrieved from cache."]_vars

\* ---------------------------------------------------------- termination
\* The event loop runs every coroutine that is ready, and every invocation
\* of the wrapped operation terminates: each step of a call or of a task that
\* stays possible is eventually taken.  Requests, bursts of other calls and
\* the clock are under no obligation.
InitLive ==
    /\ Init
    /\ storage = EmptyStorage
    /\ workload \in {MixedWorkload, {BaseRequest("profile_trustpilot")}}

Fairness ==
    \A c \in Callers :
        /\ WF_vars(LockAcquired(c))
        /\ WF_vars(CreatorResumes(c))
        /\ WF_vars(WaiterResumes(c))
        /\ WF_vars(HandlerStart(c))
        /\ WF_vars(ActorCallReturns(c))
        /\ WF_vars(ListItemsReturns(c))

SpecLive == InitLive /\ [][Next]_vars /\ Fairness

\* C26: every call of a wrapped handler eventually returns or raises, also a
\* call that waits on a lock object evicted from the lock map.
C26_EveryCallReturns ==
    \A c \in Callers : Started(c) ~> (calls[c].pc = "returned")

\* A call waits on a lock object that is no longer the map's lock of its key.
WaitsOnEvicted(c) ==
    /\ calls[c].pc = "acquire"
    /\ LET k == RequestKey(calls[c].req) IN
       ~(HasLock(request_locks, k) /\ request_locks.entries[k].lock = calls[c].lock)

\* A call that waited for the lock of another call's key has returned after
\* that lock object was evicted from the lock map.
C26_Witness ==
    \E c, t \in Callers :
        /\ c # t /\ c \in tasks[t].waiting
        /\ calls[c].lock = calls[t].lock
        /\ calls[c].pc = "returned"
        /\ LET k == RequestKey(calls[c].req) IN
           ~(HasLock(request_locks, k) /\ request_locks.entries[k].lock = calls[c].lock)

\* ----------------------------------------------------------- stripe_webhook
\* One customer checks out for one company: webhooks.company is the
\* stripe_customer_id column of the company's row (set or not),
\* webhooks.subscription the customer's row of the subscriptions table with
\* its company_id (<<>> is null), webhooks.calls the deliveries being handled.
\* After `await request.body()` the handler never awaits: deliveries
\* interleave only between server processes (Workers).
EventTypes == {"checkout.session.completed", "customer.subscription.created",
               "customer.subscription.updated"}

TheCompany == "company"

NoSubscriptionRow == [missing |-> TRUE]

IdleWebhookCall == [pc |-> "idle", type |-> "", worker |-> 0, company_id |-> NoneVal]

\* checkout.session.completed: companies.update({'stripe_customer_id': ...})
CheckoutUpdatesCompany(c, w) ==
    /\ webhooks.calls[c].pc = "idle"
    /\ WorkerFree(webhooks.calls, w, c)
    /\ webhooks' = [webhooks EXCEPT !.company = TRUE,
                                    !.calls[c] = [pc |-> "floating",
                                                  type |-> "checkout.session.completed",
                                                  worker |-> w,
                                                  company_id |-> Some(TheCompany)]]
    /\ UNCHANGED <<wrapperVars, places, reminders, invites, payouts>>

\* checkout.session.completed: subscriptions.update({'company_id': company_id})
\* .eq('stripe_customer_id', customer_id), then the return.
CheckoutUpdatesFloating(c) ==
    /\ webhooks.calls[c].pc = "floating"
    /\ webhooks' = [webhooks EXCEPT
            !.subscription = IF @ = NoSubscriptionRow THEN @
                             ELSE [@ EXCEPT !.company_id = webhooks.calls[c].company_id],
            !.calls[c].pc = "returned"]
    /\ UNCHANGED <<wrapperVars, places, reminders, invites, payouts>>

\* customer.subscription.created / updated: the company is looked up by the
\* stored stripe_customer_id; None when no company has it.
SubscriptionLooksUp(c, w, type) ==
    /\ webhooks.calls[c].pc = "idle"
    /\ WorkerFree(webhooks.calls, w, c)
    /\ webhooks' = [webhooks EXCEPT
            !.calls[c] = [pc |-> "upsert", type |-> type, worker |-> w,
                          company_id |-> IF webhooks.company THEN Some(TheCompany)
                                         ELSE NoneVal]]
    /\ UNCHANGED <<wrapperVars, places, reminders, invites, payouts>>

\* subscriptions.upsert(subscription_data, on_conflict='stripe_subscription_id')
SubscriptionUpserts(c) ==
    /\ webhooks.calls[c].pc = "upsert"
    /\ webhooks' = [webhooks EXCEPT
            !.subscription = [company_id |-> webhooks.calls[c].company_id,
                              updated_by |-> c],
            !.calls[c].pc = "returned"]
    /\ UNCHANGED <<wrapperVars, places, reminders, invites, payouts>>

InitWebhooks ==
    /\ now = 0
    /\ faults = FALSE
    /\ WrapperIdle
    /\ webhooks = [company |-> FALSE, subscription |-> NoSubscriptionRow,
                   calls |-> [c \in Callers |-> IdleWebhookCall]]
    /\ places = None /\ reminders = None /\ invites = None /\ payouts = None

NextWebhooks ==
    \/ \E c \in Callers : \E w \in Workers : CheckoutUpdatesCompany(c, w)
    \/ \E c \in Callers : CheckoutUpdatesFloating(c)
    \/ \E c \in Callers : \E w \in Workers :
            \E type \in EventTypes \ {"checkout.session.completed"} :
                SubscriptionLooksUp(c, w, type)
    \/ \E c \in Callers : SubscriptionUpserts(c)
    \/ Tick

SpecWebhooks == InitWebhooks /\ [][NextWebhooks]_vars

\* C25: once the checkout.session.completed and the
\* customer.subscription.created deliveries have both been handled, the
\* subscription row carries the company of the checkout.
C25_SubscriptionLinked ==
    (/\ \A c \in Callers : webhooks.calls[c].pc \in {"idle", "returned"}
     /\ \E c \in Callers : /\ webhooks.calls[c].pc = "returned"
                           /\ webhooks.calls[c].type = "checkout.session.completed"
     /\ \E c \in Callers : /\ webhooks.calls[c].pc = "returned"
                           /\ webhooks.calls[c].type = "customer.subscription.created")
        => /\ webhooks.subscription # NoSubscriptionRow
           /\ webhooks.subscription.company_id = Some(TheCompany)

\* ------------------------------------------------- dispatches of reminders
\* The number of times the message of reminder id went out.
Dispatches(id) == Len(SelectSeq(reminders.log, LAMBDA x : x = id))

\* C27: the message of a reminder is dispatched at most once, over all
\* process_reminders runs.
C27_DispatchedOnce ==
    \A id \in 1..Len(reminders.rows) : Dispatches(id) <= 1

====
